---- MODULE Spec2Model ----
(***************************************************************************)
(* WebauthzExpress (src/src/main.js): the per-request bearer-token         *)
(* middleware, the decision context it attaches as req.webauthz, and the   *)
(* response helpers header / empty / json / html.                          *)
(*                                                                         *)
(* JavaScript strings are sequences of one-character strings, so that      *)
(* toLowerCase, startsWith, substr, trim, split, join and                  *)
(* encodeURIComponent are computed character by character.                 *)
(***************************************************************************)
EXTENDS Integers, Sequences, FiniteSets, TLC

(* ------------------------------ bounds --------------------------------- *)
\* largest value of the clock Date.now()
MaxNow == 1
\* longest list of scope names bound by scope(...) or passed to isPermitted(...)
MaxScopes == 2
\* most middleware instances one request passes through
MaxStack == 2
\* most calls the route handler makes on req.webauthz / res for one request
MaxOps == 2

(* --------------------------- JavaScript values ------------------------- *)
\* every value has the same record shape, so any two values can be compared
Undef == [t |-> "undefined", s |-> <<>>, n |-> 0]
Str(s) == [t |-> "string", s |-> s, n |-> 0]
Num(n) == [t |-> "number", s |-> <<>>, n |-> n]
\* a value that is neither undefined, a string nor a number (an array, say)
Obj == [t |-> "object", s |-> <<>>, n |-> 0]

\* JavaScript truthiness, as used by `if (x)` and `!x`
Truthy(v) ==
    CASE v.t = "undefined" -> FALSE
      [] v.t = "string" -> v.s # <<>>
      [] v.t = "number" -> v.n # 0
      [] OTHER -> TRUE

Range(f) == {f[i] : i \in DOMAIN f}

(* ------------------------------ strings -------------------------------- *)
UpperChars == <<"A","B","C","D","E","F","G","H","I","J","K","L","M",
                "N","O","P","Q","R","S","T","U","V","W","X","Y","Z">>
LowerChars == <<"a","b","c","d","e","f","g","h","i","j","k","l","m",
                "n","o","p","q","r","s","t","u","v","w","x","y","z">>
Digits == {"0","1","2","3","4","5","6","7","8","9"}

\* String.prototype.toLowerCase on one character
LowerChar(c) ==
    IF c \in Range(UpperChars)
    THEN LowerChars[CHOOSE i \in DOMAIN UpperChars : UpperChars[i] = c]
    ELSE c

toLowerCase(s) == [i \in DOMAIN s |-> LowerChar(s[i])]

startsWithAllButLast(s, p) ==
    Len(s) >= Len(p) - 1 /\ SubSeq(s, 1, Len(p) - 1) = SubSeq(p, 1, Len(p) - 1)

startsWith(s, p) == Len(s) >= Len(p) /\ SubSeq(s, 1, Len(p)) = p

\* s.substr(k): the rest of s from index k (0-based)
substr(s, k) == SubSeq(s, k + 1, Len(s))

RECURSIVE trimStart(_)
trimStart(s) == IF s # <<>> /\ Head(s) = " " THEN trimStart(Tail(s)) ELSE s

RECURSIVE trimEnd(_)
trimEnd(s) ==
    IF s # <<>> /\ s[Len(s)] = " " THEN trimEnd(SubSeq(s, 1, Len(s) - 1)) ELSE s

trim(s) == trimEnd(trimStart(s))

\* s.split(' '): the pieces between single blanks, empty pieces included;
\* ''.split(' ') is ['']
RECURSIVE splitFrom(_, _)
splitFrom(s, cur) ==
    IF s = <<>> THEN <<cur>>
    ELSE IF Head(s) = " " THEN <<cur>> \o splitFrom(Tail(s), <<>>)
    ELSE splitFrom(Tail(s), Append(cur, Head(s)))

split(s) == splitFrom(s, <<>>)

\* list.join(' ')
RECURSIVE join(_)
join(list) ==
    IF list = <<>> THEN <<>>
    ELSE IF Len(list) = 1 THEN list[1]
    ELSE list[1] \o <<" ">> \o join(Tail(list))

\* characters encodeURIComponent leaves alone
Unreserved ==
    Range(UpperChars) \cup Range(LowerChars) \cup Digits
        \cup {"-", "_", ".", "!", "~", "*", "'", "(", ")"}

\* encodeURIComponent on one character (the ASCII characters the model uses)
EncodeChar(c) ==
    CASE c \in Unreserved -> <<c>>
      [] c = " " -> <<"%","2","0">>
      [] c = "/" -> <<"%","2","F">>
      [] c = ":" -> <<"%","3","A">>
      [] c = "," -> <<"%","2","C">>
      [] c = "=" -> <<"%","3","D">>
      [] c = "%" -> <<"%","2","5">>

RECURSIVE encodeURIComponent(_)
encodeURIComponent(s) ==
    IF s = <<>> THEN <<>> ELSE EncodeChar(Head(s)) \o encodeURIComponent(Tail(s))

(* --------------------------- configuration ----------------------------- *)
\* new WebauthzExpress({ plugin, realm, path, webauthz_discovery_uri })
Constructor(opts) ==
    [realm |-> IF Truthy(opts.realm) THEN opts.realm
               ELSE Str(<<"W","e","b","a","u","t","h","z">>),
     path |-> IF Truthy(opts.path) THEN opts.path ELSE Str(<<"/">>),
     webauthz_discovery_uri |->
         IF Truthy(opts.webauthz_discovery_uri)
         THEN opts.webauthz_discovery_uri ELSE Undef]

DiscoveryUri == <<"h","t","t","p","s",":","/","/","x","/","d",".","j","s","o","n">>

\* the constructor arguments tried: empty strings for everything but the
\* plugin; a resource server with a path and a discovery URI
Options ==
    { [realm |-> Str(<<>>), path |-> Str(<<>>), webauthz_discovery_uri |-> Str(<<>>)],
      [realm |-> Undef, path |-> Str(<<"/","a","p","i">>),
       webauthz_discovery_uri |-> Str(DiscoveryUri)] }

(* ------------------------ scopes, routes, headers ---------------------- *)
ScopeNames == {<<"a">>, <<"b">>}

\* the lists of at most n scope names
RECURSIVE ListsUpTo(_)
ListsUpTo(n) ==
    IF n = 0 THEN {<<>>}
    ELSE LET shorter == ListsUpTo(n - 1)
         IN  shorter \cup {Append(l, x) : l \in shorter, x \in ScopeNames}

ScopeLists == ListsUpTo(MaxScopes)

\* a route is the stack of middleware instances a request passes through, each
\* instance given by its requiredScopeList: app.use(webauthz.middleware())
\* zero or more times, then middleware() or scope(...) on the route itself
RECURSIVE AppLevel(_)
AppLevel(n) == IF n = 0 THEN <<>> ELSE <<<<>>>> \o AppLevel(n - 1)

Routes(lists, depth) == {AppLevel(n) \o <<l>> : n \in 0..(depth - 1), l \in lists}

BearerHeader ==
    Str(<<"B","e","a","r","e","r"," "," "," ","a","b","c","1","2","3"," "," ">>)

\* values of req.header('Authorization')
Headers ==
    { Undef, Obj,
      Str(<<"B","a","s","i","c"," ","x","y","z">>),
      Str(<<"b","e","a","r","e","r">>),
      BearerHeader }

(* ------------------------- the validator plugin ------------------------ *)
\* values of tokenInfo.scope: a space-delimited string, possibly empty,
\* possibly with a doubled blank, or no scope at all
ScopeValues ==
    { Undef, Str(<<>>), Str(<<"a">>), Str(<<"a"," ","b">>),
      Str(<<"a","b">>), Str(<<"b"," "," ","a">>) }

NotAfterValues == {Undef, Str(<<"x">>)} \cup {Num(n) : n \in 0..MaxNow}

\* { type, client_id, realm, scope, not_after, user_id, error }
TokenInfo(scope, not_after, error) ==
    [type |-> Str(<<"t">>), client_id |-> Str(<<"c">>), realm |-> Undef,
     scope |-> scope, not_after |-> not_after, user_id |-> Undef, error |-> error]

\* what checkToken may resolve with: every scope value with every not_after,
\* and two infos that carry an `error` attribute of the plugin's own
TokenInfos ==
    {TokenInfo(sc, na, Undef) : sc \in ScopeValues, na \in NotAfterValues}
      \cup {TokenInfo(Str(<<"a">>), Undef, Str(<<"e">>)),
            TokenInfo(Str(<<"a">>), Num(0), Str(<<"e">>))}

Attributes == <<"type", "client_id", "realm", "scope", "not_after", "user_id", "error">>

\* the object literal { error: tag }
ErrorResult(tag) ==
    [type |-> Undef, client_id |-> Undef, realm |-> Undef, scope |-> Undef,
     not_after |-> Undef, user_id |-> Undef, error |-> Str(tag)]

HeaderNotFound ==
    <<"a","u","t","h","o","r","i","z","a","t","i","o","n","-","h","e","a","d","e","r",
      "-","n","o","t","-","f","o","u","n","d">>
HeaderNotBearer ==
    <<"a","u","t","h","o","r","i","z","a","t","i","o","n","-","h","e","a","d","e","r",
      "-","n","o","t","-","b","e","a","r","e","r">>
TokenExpired == <<"t","o","k","e","n","-","e","x","p","i","r","e","d">>
InvalidToken == <<"i","n","v","a","l","i","d","-","t","o","k","e","n">>

BearerPrefix == <<"b","e","a","r","e","r"," ">>

(* ------------------------------- state --------------------------------- *)
VARIABLES
    requests,       \* the requests in flight (fixed for a behaviour)
    config,         \* the WebauthzExpress instance: realm, path, webauthz_discovery_uri
    plugin,         \* the token infos plugin.checkToken can resolve with
    handlerChecks,  \* the argument lists the route handlers pass to isPermitted
    header,         \* request -> req.header('Authorization')
    route,          \* request -> the stack of middleware instances on its route
    stage,          \* request -> index of the instance it is in (or has left last)
    pc,             \* request -> "enter" | "await" | "handler" | "thrown"
    checkTokenCalls,\* request -> the tokenInput of each plugin.checkToken call, in order
    tokenInfo,      \* invocation -> what `await checkToken` produced (<<>> before)
    dateNow,        \* invocation -> the value Date.now() returned (<<>> if not read)
    authorization,  \* invocation -> the local `authorization` (<<>> while null)
    log,            \* invocation -> logger calls and calls on res, in program order
    webauthz,       \* request -> the property req.webauthz (<<>> while not defined)
    nextCalls,      \* request -> number of calls of next()
    res,            \* request -> the response object
    ret,            \* request -> the last isPermitted call and its return value
    ops             \* request -> number of calls the route handler has made

vars == <<requests, config, plugin, handlerChecks, header, route, stage, pc,
          checkTokenCalls, tokenInfo, dateNow, authorization, log, webauthz,
          nextCalls, res, ret, ops>>

\* one activation of the async function (req, res, next): request r in the
\* k-th instance of its route; `let authorization`, `const api` live there
FrameShared(r, k) == <<1, 1>>

Frame(r, k) == <<r, k>>

Frames == {Frame(r, k) : r \in requests, k \in 1..MaxStack}

\* res as the middleware finds it. The fields record what has been passed to
\* res.status, res.set and the ending calls; `aborted` is set when the host
\* ended the response itself while the request was still in the middleware.
NewResponse ==
    [statusCode |-> 200, wwwAuthenticate |-> Undef, contentType |-> "none",
     body |-> "none", finished |-> FALSE, aborted |-> FALSE]

InitWith(rs, opts, headers, routes, infos, checks) ==
    /\ requests = rs
    /\ config \in {Constructor(o) : o \in opts}
    /\ plugin = infos
    /\ handlerChecks = checks
    /\ header \in [rs -> headers]
    /\ route \in [rs -> routes]
    /\ stage = [r \in rs |-> 1]
    /\ pc = [r \in rs |-> "enter"]
    /\ checkTokenCalls = [r \in rs |-> <<>>]
    /\ tokenInfo = [f \in {Frame(r, k) : r \in rs, k \in 1..MaxStack} |-> <<>>]
    /\ dateNow = [f \in {Frame(r, k) : r \in rs, k \in 1..MaxStack} |-> <<>>]
    /\ authorization = [f \in {Frame(r, k) : r \in rs, k \in 1..MaxStack} |-> <<>>]
    /\ log = [f \in {Frame(r, k) : r \in rs, k \in 1..MaxStack} |-> <<>>]
    /\ webauthz = [r \in rs |-> <<>>]
    /\ nextCalls = [r \in rs |-> 0]
    /\ res = [r \in rs |-> NewResponse]
    /\ ret = [r \in rs |-> <<>>]
    /\ ops = [r \in rs |-> 0]

\* one request; every header and every token info, on routes with and without
\* an app-level middleware() in front of the route's own instance
Init ==
    InitWith({1}, Options, Headers, Routes({<<>>, <<<<"a">>>>}, MaxStack),
             TokenInfos, {<<>>, <<<<"a">>>>})

\* one request; every bound list, every argument list and every scope value
InitScopes ==
    InitWith({1}, Options, {Undef, BearerHeader}, Routes(ScopeLists, 1),
             {TokenInfo(sc, Undef, Undef) : sc \in ScopeValues}
                 \cup {TokenInfo(Str(<<"a">>), Num(0), Undef)},
             ScopeLists)

(* ------------------------- the decision context ------------------------ *)
\* const api = {} with the seven read-only attributes copied from
\* `authorization`; the functions of api close over the invocation's
\* `authorization` and over the instance's requiredScopeList
NewApi(auth, f, requiredScopeList) ==
    [type |-> auth.type, client_id |-> auth.client_id, realm |-> auth.realm,
     scope |-> auth.scope, not_after |-> auth.not_after,
     user_id |-> auth.user_id, error |-> auth.error,
     frame |-> f, requiredScopeList |-> requiredScopeList]

\* api.isPermitted(...scope) for the `authorization` it closes over
isPermittedSome(auth, requiredScopeList, scope) ==
    LET checkScopeList == IF Len(scope) > 0 THEN scope ELSE requiredScopeList
    IN  IF ~Truthy(auth.scope) THEN FALSE
        ELSE LET granted == split(auth.scope.s)
             IN  checkScopeList = <<>>
                   \/ \E i \in DOMAIN checkScopeList : checkScopeList[i] \in Range(granted)

isPermittedNoGuard(auth, requiredScopeList, scope) ==
    LET checkScopeList == IF Len(scope) > 0 THEN scope ELSE requiredScopeList
        granted == split(auth.scope.s)
    IN  \A i \in DOMAIN checkScopeList : checkScopeList[i] \in Range(granted)

isPermitted(auth, requiredScopeList, scope) ==
    LET checkScopeList == IF Len(scope) > 0 THEN scope ELSE requiredScopeList
    IN  IF ~Truthy(auth.scope) THEN FALSE
        ELSE LET granted == split(auth.scope.s)
             IN  \A i \in DOMAIN checkScopeList :
                     checkScopeList[i] \in Range(granted)

(* ----------------------------- middleware ------------------------------ *)
\* line 134: typeof not_after === 'number' && Date.now() > not_after
ExpiredAtEqual(not_after, t) == not_after.t = "number" /\ t >= not_after.n

Expired(not_after, t) == not_after.t = "number" /\ t > not_after.n

\* line 136: authorization = { error: 'token-expired' }
ExpiredKeepsInfo(info) == [info EXCEPT !.error = Str(TokenExpired)]

ExpiredResult(info) == ErrorResult(TokenExpired)

\* line 130: this.plugin.checkToken(tokenInput), recorded in the list of calls
CheckTokenTwice(calls, tokenInput) == calls \o <<tokenInput, tokenInput>>

CheckToken(calls, tokenInput) == Append(calls, tokenInput)

\* lines 148-265: build api from `authorization`, define req.webauthz, call
\* next(). Object.defineProperty throws a TypeError when req.webauthz is
\* already defined (it is neither configurable nor writable), which rejects
\* the promise of the async function before next() is reached.
Complete(r, auth, entries) ==
    LET k == stage[r]
        f == Frame(r, k)
        api == NewApi(auth, f, route[r][k])
    IN  /\ authorization' = [authorization EXCEPT ![f] = <<auth>>]
        /\ IF webauthz[r] = <<>>
           THEN /\ webauthz' = [webauthz EXCEPT ![r] = <<api>>]
                /\ log' = [log EXCEPT ![f] = @ \o entries \o <<"trace: next...">>]
                /\ nextCalls' = [nextCalls EXCEPT ![r] = @ + 1]
                /\ IF k < Len(route[r])
                   THEN /\ stage' = [stage EXCEPT ![r] = k + 1]
                        /\ pc' = [pc EXCEPT ![r] = "enter"]
                   ELSE /\ stage' = stage
                        /\ pc' = [pc EXCEPT ![r] = "handler"]
           ELSE /\ log' = [log EXCEPT ![f] = @ \o entries]
                /\ pc' = [pc EXCEPT ![r] = "thrown"]
                /\ UNCHANGED <<webauthz, nextCalls, stage>>

\* lines 111-130: the synchronous part of the middleware, up to the await.
\* A plugin whose checkToken throws instead of returning a promise lands in
\* the catch block at once.
MiddlewareEnter(r) ==
    /\ pc[r] = "enter"
    /\ LET h == header[r]
       IN  IF h.t # "string"
           THEN /\ Complete(r, ErrorResult(HeaderNotFound),
                            <<"trace: no authorization header in request">>)
                /\ UNCHANGED checkTokenCalls
           ELSE IF ~startsWith(toLowerCase(h.s), BearerPrefix)
           THEN /\ Complete(r, ErrorResult(HeaderNotBearer),
                            <<"trace: authorization header not bearer">>)
                /\ UNCHANGED checkTokenCalls
           ELSE LET tokenInput == trim(substr(h.s, Len(BearerPrefix)))
                IN  /\ checkTokenCalls' = [checkTokenCalls EXCEPT ![r] = CheckToken(@, tokenInput)]
                    /\ \/ /\ pc' = [pc EXCEPT ![r] = "await"]
                          /\ UNCHANGED <<authorization, log, webauthz, nextCalls, stage>>
                       \/ Complete(r, ErrorResult(InvalidToken),
                                   <<"error: valid token (err thrown by checkToken)">>)
    /\ UNCHANGED <<requests, config, plugin, handlerChecks, header, route,
                   tokenInfo, dateNow, res, ret, ops>>

\* lines 130-140: checkToken resolved with a token info
CheckTokenResolves(r) ==
    /\ pc[r] = "await"
    /\ \E info \in plugin :
         LET f == Frame(r, stage[r])
             not_after == info.not_after
         IN  /\ tokenInfo' = [tokenInfo EXCEPT ![f] = <<info>>]
             /\ IF not_after.t = "number"
                THEN \E t \in 0..MaxNow :
                       /\ dateNow' = [dateNow EXCEPT ![f] = <<t>>]
                       /\ IF Expired(not_after, t)
                          THEN Complete(r, ExpiredResult(info), <<"trace: token expired">>)
                          ELSE Complete(r, info, <<"trace: valid token">>)
                ELSE /\ dateNow' = dateNow
                     /\ Complete(r, info, <<"trace: valid token">>)
    /\ UNCHANGED <<requests, config, plugin, handlerChecks, header, route,
                   checkTokenCalls, res, ret, ops>>

\* lines 141-144: checkToken rejected, so the await throws into the catch block
CheckTokenRejects(r) ==
    /\ pc[r] = "await"
    /\ Complete(r, ErrorResult(InvalidToken), <<"error: valid token (err rejected by checkToken)">>)
    /\ UNCHANGED <<requests, config, plugin, handlerChecks, header, route,
                   checkTokenCalls, tokenInfo, dateNow, res, ret, ops>>

\* lines 132, 141-144: checkToken resolved with undefined or null, so the
\* destructuring of tokenInfo throws a TypeError into the catch block
CheckTokenResolvesNothing(r) ==
    /\ pc[r] = "await"
    /\ Complete(r, ErrorResult(InvalidToken), <<"error: valid token (err TypeError)">>)
    /\ UNCHANGED <<requests, config, plugin, handlerChecks, header, route,
                   checkTokenCalls, tokenInfo, dateNow, res, ret, ops>>

\* line 130: while the function is suspended in the await, the request is
\* aborted (the client went away or a timeout of the host fired) and the host
\* ends the response. The suspended function is not told: lines 130-146 hold
\* no listener and no test of req or res.
Abort(r) ==
    /\ pc[r] = "await"
    /\ ~res[r].aborted
    /\ res' = [res EXCEPT ![r] = [@ EXCEPT !.finished = TRUE, !.aborted = TRUE]]
    /\ UNCHANGED <<requests, config, plugin, handlerChecks, header, route, stage, pc,
                   checkTokenCalls, tokenInfo, dateNow, authorization, log,
                   webauthz, nextCalls, ret, ops>>

(* ------------------------- the api's functions ------------------------- *)
\* the value header() gives WWW-Authenticate (lines 172-176)
Challenge(cfg, requiredScopeList) ==
    LET scopeEncoded == encodeURIComponent(join(requiredScopeList))
        realmEncoded == encodeURIComponent(cfg.realm.s)
        pathEncoded == encodeURIComponent(cfg.path.s)
        webauthzDiscoveryUriEncoded == encodeURIComponent(cfg.webauthz_discovery_uri.s)
    IN  <<"B","e","a","r","e","r"," ","r","e","a","l","m","=">> \o realmEncoded
          \o <<","," ","s","c","o","p","e","=">> \o scopeEncoded
          \o <<","," ","w","e","b","a","u","t","h","z","_","d","i","s","c","o","v","e","r","y",
               "_","u","r","i","=">> \o webauthzDiscoveryUriEncoded
          \o <<","," ","p","a","t","h","=">> \o pathEncoded

\* the list the challenge advertises: the instance's requiredScopeList
ChallengeScopesLastCheck(api, lastCall) ==
    IF lastCall # <<>> /\ lastCall[1].scope # <<>>
    THEN lastCall[1].scope ELSE api.requiredScopeList

ChallengeScopes(api, lastCall) == api.requiredScopeList

\* api.header(): what it leaves in res, and what it logs and calls
HeaderRes(resp, api, lastCall) ==
    IF Truthy(config.webauthz_discovery_uri)
    THEN [resp EXCEPT !.statusCode = 401,
                      !.wwwAuthenticate =
                          Str(Challenge(config, ChallengeScopes(api, lastCall)))]
    ELSE [resp EXCEPT !.statusCode = 401]

HeaderLog ==
    <<"trace: header status 401", "res.status(401)">>
      \o IF Truthy(config.webauthz_discovery_uri)
         THEN <<"trace: header www-authenticate", "res.set(WWW-Authenticate)">>
         ELSE <<>>

\* the route handler (or a later middleware) is running with req.webauthz and
\* has not ended the response itself. Nothing in lines 163-250 looks at the
\* state of res, so the functions of api run the same on a response that the
\* host has ended already.
InHandler(r) ==
    /\ pc[r] = "handler"
    /\ ops[r] < MaxOps
    /\ res[r].body = "none"

AppVars == <<requests, config, plugin, handlerChecks, header, route, stage, pc,
             checkTokenCalls, tokenInfo, dateNow, authorization, webauthz, nextCalls>>

\* req.webauthz.isPermitted(...scope), lines 230-250
IsPermittedCall(r) ==
    /\ InHandler(r)
    /\ \E scope \in handlerChecks :
         LET api == webauthz[r][1]
             auth == authorization[api.frame][1]
         IN  ret' = [ret EXCEPT ![r] =
                       <<[scope |-> scope,
                          value |-> isPermitted(auth, api.requiredScopeList, scope)]>>]
    /\ ops' = [ops EXCEPT ![r] = @ + 1]
    /\ UNCHANGED AppVars
    /\ UNCHANGED <<res, log>>

\* req.webauthz.header(), lines 164-178
HeaderCall(r) ==
    /\ InHandler(r)
    /\ LET api == webauthz[r][1]
       IN  /\ res' = [res EXCEPT ![r] = HeaderRes(@, api, ret[r])]
           /\ log' = [log EXCEPT ![api.frame] = @ \o HeaderLog]
    /\ ops' = [ops EXCEPT ![r] = @ + 1]
    /\ UNCHANGED AppVars
    /\ UNCHANGED ret

\* a finisher: api.header(), then the trace line, then the call that ends the response
FinisherEndsFirst(r, name, call, contentType) ==
    /\ InHandler(r)
    /\ LET api == webauthz[r][1]
       IN  /\ res' = [res EXCEPT ![r] =
                        [HeaderRes(@, api, ret[r]) EXCEPT !.finished = TRUE,
                                                          !.body = name,
                                                          !.contentType = contentType]]
           /\ log' = [log EXCEPT ![api.frame] = @ \o <<"trace: " \o name, call>> \o HeaderLog]
    /\ ops' = [ops EXCEPT ![r] = @ + 1]
    /\ UNCHANGED AppVars
    /\ UNCHANGED ret

Finisher(r, name, call, contentType) ==
    /\ InHandler(r)
    /\ LET api == webauthz[r][1]
       IN  /\ res' = [res EXCEPT ![r] =
                        [HeaderRes(@, api, ret[r]) EXCEPT !.finished = TRUE,
                                                          !.body = name,
                                                          !.contentType = contentType]]
           /\ log' = [log EXCEPT ![api.frame] = @ \o HeaderLog \o <<"trace: " \o name, call>>]
    /\ ops' = [ops EXCEPT ![r] = @ + 1]
    /\ UNCHANGED AppVars
    /\ UNCHANGED ret

\* req.webauthz.empty(), lines 185-192
EmptyCall(r) == Finisher(r, "empty", "res.end()", "none")

\* req.webauthz.json(data), lines 199-206
JsonCall(r) == Finisher(r, "json", "res.json(data)", "application/json")

\* req.webauthz.html(data), lines 213-220
HtmlCall(r) == Finisher(r, "html", "res.send(data)", "text/html")

\* the route handler sends its own response (return res.json({...}))
HandlerResponds(r) ==
    /\ InHandler(r)
    /\ res' = [res EXCEPT ![r] = [@ EXCEPT !.finished = TRUE, !.body = "handler",
                                           !.contentType = "application/json"]]
    /\ ops' = [ops EXCEPT ![r] = @ + 1]
    /\ UNCHANGED AppVars
    /\ UNCHANGED <<ret, log>>

Next ==
    \/ \E r \in requests : MiddlewareEnter(r)
    \/ \E r \in requests : CheckTokenResolves(r)
    \/ \E r \in requests : CheckTokenRejects(r)
    \/ \E r \in requests : CheckTokenResolvesNothing(r)
    \/ \E r \in requests : Abort(r)
    \/ \E r \in requests : IsPermittedCall(r)
    \/ \E r \in requests : HeaderCall(r)
    \/ \E r \in requests : EmptyCall(r)
    \/ \E r \in requests : JsonCall(r)
    \/ \E r \in requests : HtmlCall(r)
    \/ \E r \in requests : HandlerResponds(r)

\* two requests in flight at once on a route bound by scope('a')
InitConcurrent ==
    InitWith({1, 2}, {[realm |-> Undef, path |-> Undef,
                       webauthz_discovery_uri |-> Str(DiscoveryUri)]},
             {Undef, BearerHeader}, Routes({<<<<"a">>>>}, 1),
             {TokenInfo(Str(<<"a">>), Num(0), Undef), TokenInfo(Str(<<"b">>), Undef, Undef)},
             {<<<<"a">>>>})

Spec == Init /\ [][Next]_vars

SpecConcurrent == InitConcurrent /\ [][Next]_vars

SpecScopes == InitScopes /\ [][Next]_vars

(* ------------------------- reading the state --------------------------- *)
\* the classification an invocation logged, as the kinds of the specification
KindOfEntry(e) ==
    CASE e = "trace: no authorization header in request" -> "absent"
      [] e = "trace: authorization header not bearer" -> "malformed-scheme"
      [] e = "trace: token expired" -> "expired"
      [] e = "trace: valid token" -> "valid"
      [] e \in {"error: valid token (err thrown by checkToken)",
                "error: valid token (err rejected by checkToken)",
                "error: valid token (err TypeError)"} -> "invalid"
      [] OTHER -> "none"

Classifications(f) ==
    SelectSeq([i \in DOMAIN log[f] |-> KindOfEntry(log[f][i])], LAMBDA k : k # "none")

Kinds(f) == Range(Classifications(f))

\* the scope names a space-delimited scope value grants: its maximal runs of
\* non-blank characters
GrantedSet(scope) ==
    IF scope.t # "string" THEN {}
    ELSE LET s == scope.s
         IN  { SubSeq(s, i, j) : <<i, j>> \in
                 { p \in (DOMAIN s) \X (DOMAIN s) :
                     /\ p[1] <= p[2]
                     /\ \A m \in p[1]..p[2] : s[m] # " "
                     /\ (p[1] = 1 \/ s[p[1] - 1] = " ")
                     /\ (p[2] = Len(s) \/ s[p[2] + 1] = " ") } }

AllOf(list, set) == \A i \in DOMAIN list : list[i] \in set

\* request r has called isPermitted on the context of a token classified `kind`
Checked(r, kind) ==
    /\ ret[r] # <<>>
    /\ webauthz[r] # <<>>
    /\ Kinds(webauthz[r][1].frame) = {kind}

(* ------------------------------- claims -------------------------------- *)
\* C1: on a context built from a valid token, isPermitted(s1..sn) with n >= 1
\* returns true exactly when every si is in the granted scope set, whatever the
\* bound required list is; isPermitted() on a context bound by a non-empty
\* required list returns true exactly when every bound name is in the granted set.
C1_IsPermittedIsSubsetTest ==
    \A r \in requests :
        Checked(r, "valid") =>
            LET api == webauthz[r][1]
                call == ret[r][1]
            IN  /\ call.scope # <<>> =>
                     (call.value <=> AllOf(call.scope, GrantedSet(api.scope)))
                /\ (call.scope = <<>> /\ api.requiredScopeList # <<>>) =>
                     (call.value <=> AllOf(api.requiredScopeList, GrantedSet(api.scope)))

\* C1 witness: isPermitted('a') is true on a route bound by scope('b') for a
\* token granted exactly "a"
C1_Witness ==
    \E r \in requests :
        /\ Checked(r, "valid")
        /\ ret[r][1] = [scope |-> <<<<"a">>>>, value |-> TRUE]
        /\ webauthz[r][1].requiredScopeList = <<<<"b">>>>
        /\ webauthz[r][1].scope = Str(<<"a">>)

\* C2: when checkToken resolved with a numeric not_after strictly less than the
\* clock, the result is { error: 'token-expired' } and isPermitted is false for
\* every argument list and every bound list; otherwise the result is the token
\* info itself, classified valid, and the context carries its attributes.
C2_ExpiryDecidesTheResult ==
    \A f \in Frames :
        (tokenInfo[f] # <<>> /\ authorization[f] # <<>>) =>
            LET info == tokenInfo[f][1]
                auth == authorization[f][1]
                r == f[1]
                past == /\ info.not_after.t = "number"
                        /\ dateNow[f] # <<>>
                        /\ info.not_after.n < dateNow[f][1]
            IN  IF past
                THEN /\ Kinds(f) = {"expired"}
                     /\ auth.error = Str(TokenExpired)
                     /\ \A req \in ScopeLists, scope \in ScopeLists :
                            ~isPermitted(auth, req, scope)
                     /\ (webauthz[r] # <<>> /\ webauthz[r][1].frame = f) =>
                            /\ webauthz[r][1].error = Str(TokenExpired)
                            /\ ret[r] # <<>> => ~ret[r][1].value
                ELSE /\ Kinds(f) = {"valid"}
                     /\ auth = info
                     /\ (webauthz[r] # <<>> /\ webauthz[r][1].frame = f) =>
                            \A i \in DOMAIN Attributes :
                                webauthz[r][1][Attributes[i]] = info[Attributes[i]]

\* C2 witness: a token granted "a" whose not_after 0 lies before the clock's 1;
\* isPermitted('a') has returned false
C2_Witness ==
    \E r \in requests :
        /\ Checked(r, "expired")
        /\ tokenInfo[webauthz[r][1].frame] = <<TokenInfo(Str(<<"a">>), Num(0), Undef)>>
        /\ dateNow[webauthz[r][1].frame] = <<1>>
        /\ ret[r][1] = [scope |-> <<<<"a">>>>, value |-> FALSE]

\* invocation f called checkToken and the call failed: `authorization` was
\* assigned although the await produced no token info
ValidatorFailed(f) ==
    /\ authorization[f] # <<>>
    /\ tokenInfo[f] = <<>>
    /\ Len(checkTokenCalls[f[1]]) >= f[2]

\* C3: if checkToken fails, the result is { error: 'invalid-token' }, the
\* failure is logged as an error, nothing is thrown out of the middleware, and
\* the request has gone on to the next handler with req.webauthz defined.
C3_ValidatorFailureIsContained ==
    \A f \in Frames :
        ValidatorFailed(f) =>
            /\ authorization[f] = <<ErrorResult(InvalidToken)>>
            /\ Kinds(f) = {"invalid"}
            /\ pc[f[1]] # "thrown"
            /\ nextCalls[f[1]] >= f[2]
            /\ webauthz[f[1]] # <<>>

\* the header is a string that starts with 'bearer ' in any letter case
HasBearerScheme(h) ==
    /\ h.t = "string"
    /\ Len(h.s) >= 7
    /\ [i \in 1..7 |-> LowerChar(h.s[i])] = <<"b","e","a","r","e","r"," ">>

\* C4: a header that is absent or not a string gives the result
\* { error: 'authorization-header-not-found' }, a string without the bearer
\* scheme gives { error: 'authorization-header-not-bearer' }, and in both cases
\* isPermitted is false for every non-empty list, explicit or bound.
C4_NoBearerCredential ==
    \A f \in Frames :
        (authorization[f] # <<>> /\ ~HasBearerScheme(header[f[1]])) =>
            LET auth == authorization[f][1]
                r == f[1]
                tag == IF header[r].t # "string" THEN HeaderNotFound ELSE HeaderNotBearer
            IN  /\ auth = ErrorResult(tag)
                /\ Kinds(f) = {IF header[r].t # "string" THEN "absent" ELSE "malformed-scheme"}
                /\ \A req \in ScopeLists, scope \in ScopeLists :
                       (req # <<>> \/ scope # <<>>) => ~isPermitted(auth, req, scope)
                /\ (webauthz[r] # <<>> /\ webauthz[r][1].frame = f) =>
                       /\ webauthz[r][1].error = Str(tag)
                       /\ (ret[r] # <<>> /\ (ret[r][1].scope # <<>>
                                               \/ webauthz[r][1].requiredScopeList # <<>>))
                              => ~ret[r][1].value

\* C4 witness: "Basic xyz" on a route bound by scope('a'); isPermitted() has
\* returned false
C4_Witness ==
    \E r \in requests :
        /\ header[r] = Str(<<"B","a","s","i","c"," ","x","y","z">>)
        /\ Checked(r, "malformed-scheme")
        /\ webauthz[r][1].requiredScopeList = <<<<"a">>>>
        /\ webauthz[r][1].error = Str(HeaderNotBearer)
        /\ ret[r][1] = [scope |-> <<>>, value |-> FALSE]

\* request r has called isPermitted() with no arguments on a context with an
\* empty bound list
CheckedNothing(r) ==
    /\ ret[r] # <<>>
    /\ webauthz[r] # <<>>
    /\ ret[r][1].scope = <<>>
    /\ webauthz[r][1].requiredScopeList = <<>>

\* C5 as claimed: with no scopes bound and none passed, isPermitted() returns
\* true for every authorization result.
C5_VacuouslyTrue ==
    \A r \in requests : CheckedNothing(r) => ret[r][1].value

\* C5 as amended: with no scopes bound and none passed, isPermitted() returns
\* true exactly when the result carries a non-empty scope string; it is false
\* for every result that is not valid and for a valid token without scope.
C5_TrueOnlyWithSomeScope ==
    \A r \in requests :
        CheckedNothing(r) =>
            LET api == webauthz[r][1]
            IN  /\ ret[r][1].value <=> (api.scope.t = "string" /\ api.scope.s # <<>>)
                /\ Kinds(api.frame) # {"valid"} => ~ret[r][1].value

\* C5 witness: a valid token whose scope is the empty string; isPermitted()
\* has returned false
C5_Witness ==
    \E r \in requests :
        /\ CheckedNothing(r)
        /\ Kinds(webauthz[r][1].frame) = {"valid"}
        /\ webauthz[r][1].scope = Str(<<>>)
        /\ ~ret[r][1].value

\* a discovery URI was given to the constructor
Configured ==
    config.webauthz_discovery_uri.t = "string" /\ config.webauthz_discovery_uri.s # <<>>

EndingCalls == {"res.end()", "res.json(data)", "res.send(data)"}

\* the calls made on res through the context of request r, in order
ResCalls(r) ==
    SelectSeq(log[webauthz[r][1].frame],
              LAMBDA e : e \in EndingCalls \cup {"res.status(401)", "res.set(WWW-Authenticate)"})

\* the names of a list, each followed by nothing and separated by %20
RECURSIVE PercentJoined(_)
PercentJoined(list) ==
    IF list = <<>> THEN <<>>
    ELSE IF Len(list) = 1 THEN list[1]
    ELSE list[1] \o <<"%","2","0">> \o PercentJoined(Tail(list))

\* the challenge of the resource server with realm 'Webauthz', discovery URI
\* https://x/d.json and path /api, written out
WrittenChallenge(list) ==
    <<"B","e","a","r","e","r"," ","r","e","a","l","m","=","W","e","b","a","u","t","h","z",
      ","," ","s","c","o","p","e","=">>
      \o PercentJoined(list)
      \o <<","," ","w","e","b","a","u","t","h","z","_","d","i","s","c","o","v","e","r","y",
           "_","u","r","i","=","h","t","t","p","s","%","3","A","%","2","F","%","2","F","x",
           "%","2","F","d",".","j","s","o","n",","," ","p","a","t","h","=","%","2","F","a","p","i">>

\* C6: once header() has been called the status is 401 and header() has
\* written no body and ended nothing (a response is ended without a body only
\* when the host aborted it); WWW-Authenticate is set exactly when a discovery URI is
\* configured, and its value is 'Bearer realm=R, scope=S, webauthz_discovery_uri=U,
\* path=P' with R, S, U, P the percent-encoded realm, bound required scopes
\* joined by a blank in binding order, discovery URI and path -- the bound
\* list, whatever was passed to isPermitted.
C6_HeaderSets401AndChallenge ==
    \A r \in requests :
        (webauthz[r] # <<>> /\ "res.status(401)" \in Range(log[webauthz[r][1].frame])) =>
            LET api == webauthz[r][1]
                www == res[r].wwwAuthenticate
            IN  /\ res[r].statusCode = 401
                /\ (www # Undef) <=> Configured
                /\ Configured =>
                     /\ www = Str(<<"B","e","a","r","e","r"," ","r","e","a","l","m","=">>
                                  \o encodeURIComponent(config.realm.s)
                                  \o <<","," ","s","c","o","p","e","=">>
                                  \o encodeURIComponent(join(api.requiredScopeList))
                                  \o <<","," ","w","e","b","a","u","t","h","z","_","d","i","s",
                                       "c","o","v","e","r","y","_","u","r","i","=">>
                                  \o encodeURIComponent(config.webauthz_discovery_uri.s)
                                  \o <<","," ","p","a","t","h","=">>
                                  \o encodeURIComponent(config.path.s))
                     /\ (config.realm = Str(<<"W","e","b","a","u","t","h","z">>)
                           /\ config.webauthz_discovery_uri = Str(DiscoveryUri)
                           /\ config.path = Str(<<"/","a","p","i">>))
                          => www = Str(WrittenChallenge(api.requiredScopeList))
                /\ (\A i \in DOMAIN ResCalls(r) : ResCalls(r)[i] \notin EndingCalls)
                     => (res[r].body \in {"none", "handler"}
                           /\ (res[r].body = "none" => (res[r].finished <=> res[r].aborted)))

\* C6 witness: isPermitted('b') then header() on a route bound by
\* scope('a','b'): the challenge of the specification's example, scope=a%20b
C6_Witness ==
    \E r \in requests :
        /\ webauthz[r] # <<>>
        /\ webauthz[r][1].requiredScopeList = <<<<"a">>, <<"b">>>>
        /\ ret[r] # <<>>
        /\ ret[r][1].scope = <<<<"b">>>>
        /\ res[r].statusCode = 401
        /\ ~res[r].finished
        /\ res[r].wwwAuthenticate =
             Str(<<"B","e","a","r","e","r"," ","r","e","a","l","m","=","W","e","b","a","u","t",
                   "h","z",","," ","s","c","o","p","e","=","a","%","2","0","b",","," ","w","e",
                   "b","a","u","t","h","z","_","d","i","s","c","o","v","e","r","y","_","u","r",
                   "i","=","h","t","t","p","s","%","3","A","%","2","F","%","2","F","x","%","2",
                   "F","d",".","j","s","o","n",","," ","p","a","t","h","=","%","2","F","a","p",
                   "i">>)

\* the calls a finisher makes on res, in order
FinisherCalls(call) ==
    <<"res.status(401)">>
      \o (IF Configured THEN <<"res.set(WWW-Authenticate)">> ELSE <<>>)
      \o <<call>>

\* C7: in a response ended by empty(), json() or html() the status is 401, the
\* challenge is set when a discovery URI is configured, the response was ended
\* exactly once, and the last calls on res are status(401), then the setting
\* of WWW-Authenticate if configured, then the one call that ends the response.
C7_FinisherIsHeaderThenBody ==
    \A r \in requests :
        (res[r].finished /\ res[r].body \in {"empty", "json", "html"}) =>
            LET calls == ResCalls(r)
                call == CASE res[r].body = "empty" -> "res.end()"
                          [] res[r].body = "json" -> "res.json(data)"
                          [] res[r].body = "html" -> "res.send(data)"
                last == FinisherCalls(call)
            IN  /\ res[r].statusCode = 401
                /\ Configured => res[r].wwwAuthenticate # Undef
                /\ Cardinality({i \in DOMAIN calls : calls[i] \in EndingCalls}) = 1
                /\ Len(calls) >= Len(last)
                /\ SubSeq(calls, Len(calls) - Len(last) + 1, Len(calls)) = last

\* C7 witness: isPermitted() returned false and json() ended the response
\* with the challenge set
C7_Witness ==
    \E r \in requests :
        /\ ret[r] # <<>>
        /\ ~ret[r][1].value
        /\ res[r].finished
        /\ res[r].body = "json"
        /\ res[r].contentType = "application/json"
        /\ res[r].statusCode = 401
        /\ res[r].wwwAuthenticate # Undef

\* the invocations of the middleware on request r that have run up to the
\* await or beyond
Entered(r) == IF pc[r] = "enter" THEN stage[r] - 1 ELSE stage[r]

\* C8 as claimed: per request, checkToken is called exactly once when the
\* header carries a bearer credential and never otherwise.
C8_OncePerRequest ==
    \A r \in requests :
        /\ Len(checkTokenCalls[r]) <= 1
        /\ (HasBearerScheme(header[r]) /\ Entered(r) >= 1) => Len(checkTokenCalls[r]) = 1
        /\ ~HasBearerScheme(header[r]) => Len(checkTokenCalls[r]) = 0

\* C8 as amended: each invocation of a middleware instance on a request calls
\* checkToken exactly once when the header carries a bearer credential and
\* never otherwise, so a request that has entered k instances has caused k
\* calls; a failed call is not repeated and ends that invocation.
C8_OncePerInvocation ==
    \A r \in requests :
        /\ Len(checkTokenCalls[r]) = IF HasBearerScheme(header[r]) THEN Entered(r) ELSE 0
        /\ \A k \in 1..MaxStack :
               (ValidatorFailed(Frame(r, k)) /\ stage[r] = k) =>
                   pc[r] \in {"handler", "thrown"}

\* C8 witness: the one call, with the trimmed token, failed and the request is
\* with its handler
C8_Witness ==
    \E r \in requests :
        /\ ValidatorFailed(Frame(r, 1))
        /\ pc[r] = "handler"
        /\ checkTokenCalls[r] = <<<<"a","b","c","1","2","3">>>>

TagOf(kind) ==
    CASE kind = "absent" -> HeaderNotFound
      [] kind = "malformed-scheme" -> HeaderNotBearer
      [] kind = "invalid" -> InvalidToken
      [] kind = "expired" -> TokenExpired

\* C9 as claimed: a context handed on has exactly one kind, its error field is
\* set exactly when the kind is not valid, and no scope is granted whenever
\* the error field is set.
C9_ErrorSetMeansNoScope ==
    \A r \in requests :
        webauthz[r] # <<>> =>
            LET api == webauthz[r][1]
            IN  /\ Len(Classifications(api.frame)) = 1
                /\ (Kinds(api.frame) # {"valid"}) <=> (api.error # Undef)
                /\ api.error # Undef => GrantedSet(api.scope) = {}

\* C9 as amended: a context handed on has exactly one kind; when the kind is
\* not valid no scope is granted and the error field is the tag of the kind;
\* when the kind is valid the error field is whatever the token info carried.
C9_OneKindAndNoScopeUnlessValid ==
    \A r \in requests :
        webauthz[r] # <<>> =>
            LET api == webauthz[r][1]
                kinds == Kinds(api.frame)
            IN  /\ Len(Classifications(api.frame)) = 1
                /\ kinds # {"valid"} =>
                       /\ api.scope = Undef
                       /\ GrantedSet(api.scope) = {}
                       /\ \E k \in kinds : api.error = Str(TagOf(k))
                /\ kinds = {"valid"} =>
                       /\ tokenInfo[api.frame] # <<>>
                       /\ api.error = tokenInfo[api.frame][1].error
                       /\ api.scope = tokenInfo[api.frame][1].scope

\* C9 witness: a token granted "a b" found expired; the context handed to the
\* handler has error 'token-expired' and no scope
C9_Witness ==
    \E r \in requests :
        /\ pc[r] = "handler"
        /\ Kinds(webauthz[r][1].frame) = {"expired"}
        /\ tokenInfo[webauthz[r][1].frame][1].scope = Str(<<"a"," ","b">>)
        /\ webauthz[r][1].scope = Undef
        /\ webauthz[r][1].error = Str(TokenExpired)

\* the result the code derives from request r's own header and, for a bearer
\* credential, from what its own checkToken call produced and the clock value
\* read for it
OwnResult(r) ==
    LET f == <<r, 1>>
    IN  IF header[r].t # "string" THEN ErrorResult(HeaderNotFound)
        ELSE IF ~HasBearerScheme(header[r]) THEN ErrorResult(HeaderNotBearer)
        ELSE IF tokenInfo[f] = <<>> THEN ErrorResult(InvalidToken)
        ELSE IF /\ tokenInfo[f][1].not_after.t = "number"
                /\ dateNow[f] # <<>>
                /\ dateNow[f][1] > tokenInfo[f][1].not_after.n
             THEN ErrorResult(TokenExpired)
        ELSE tokenInfo[f][1]

\* what req.webauthz.isPermitted(...scope) of request r would return now
PermittedNow(r, scope) ==
    isPermitted(authorization[webauthz[r][1].frame][1],
                webauthz[r][1].requiredScopeList, scope)

\* the context of request r is the one built from r's own inputs
Private(r) ==
    webauthz[r] # <<>> =>
        LET api == webauthz[r][1]
            own == OwnResult(r)
        IN  /\ api.frame = <<r, 1>>
            /\ api.requiredScopeList = route[r][1]
            /\ \A i \in DOMAIN Attributes : api[Attributes[i]] = own[Attributes[i]]
            /\ \A scope \in ScopeLists :
                   PermittedNow(r, scope) = isPermitted(own, route[r][1], scope)
            /\ ret[r] # <<>> =>
                   ret[r][1].value = isPermitted(own, route[r][1], ret[r][1].scope)

\* no step changes a context that exists, or what its isPermitted returns
Fixed(r) ==
    webauthz[r] # <<>> =>
        /\ webauthz'[r] = webauthz[r]
        /\ \A scope \in ScopeLists : PermittedNow(r, scope)' = PermittedNow(r, scope)

\* C10: with requests interleaved at the await, the fields of each request's
\* context and the results of its isPermitted are those derived from that
\* request's own header, its own checkToken outcome (with the clock value read
\* for it) and the bound list of its route, and no later step -- isPermitted,
\* header, a finisher, or anything another request does -- changes them.
C10_ContextPrivateAndFixed ==
    /\ [](\A r \in requests : Private(r))
    /\ [][\A r \in requests : Fixed(r)]_vars

\* C10 witness: two requests in their handlers at once, one granted "a", the
\* other "b"; isPermitted('a') returned true for the first, false for the second
C10_Witness ==
    /\ requests = {1, 2}
    /\ pc[1] = "handler" /\ pc[2] = "handler"
    /\ webauthz[1][1].scope = Str(<<"a">>)
    /\ webauthz[2][1].scope = Str(<<"b">>)
    /\ ret[1] = <<[scope |-> <<<<"a">>>>, value |-> TRUE]>>
    /\ ret[2] = <<[scope |-> <<<<"a">>>>, value |-> FALSE]>>

\* C11: once a request was aborted during the await, nothing is written to
\* its finished response after checkToken completes: no status and no
\* WWW-Authenticate reach res, and no call is made on res through the context
\* (header() and the finishers are not used on it).
C11_NothingWrittenAfterAbort ==
    \A r \in requests :
        res[r].aborted =>
            /\ res[r].statusCode = 200
            /\ res[r].wwwAuthenticate = Undef
            /\ webauthz[r] # <<>> => ResCalls(r) = <<>>

\* the invocations of the middleware on request r that have run to their end
Completed(r) == {k \in 1..MaxStack : authorization[Frame(r, k)] # <<>>}

\* how often the invocation of frame f logged that it is about to call next()
NextTraces(f) == Cardinality({i \in DOMAIN log[f] : log[f][i] = "trace: next..."})

\* C12: every invocation that has run to its end has left its own context in
\* req.webauthz and then called next() exactly once -- whatever the header and
\* the outcome of checkToken, and also on a request that came through another
\* instance of the middleware before; nothing is thrown instead.
C12_AttachesThenCallsNextOnce ==
    \A r \in requests :
        /\ pc[r] # "thrown"
        /\ nextCalls[r] = Cardinality(Completed(r))
        /\ \A k \in Completed(r) :
               /\ NextTraces(Frame(r, k)) = 1
               /\ webauthz[r] # <<>>
               /\ k = Cardinality(Completed(r)) => webauthz[r][1].frame = Frame(r, k)

====
